---- MODULE Spec2Model ----
(***************************************************************************)
(* BadmintonHub: the in-memory store of services/mockDb.ts, its session    *)
(* lifecycle (joinSession, leaveSession, createSession) and its match      *)
(* recorder (recordMatch) with the membership ledger.                      *)
(*                                                                         *)
(* Time.  An instant is a whole number of hours; calendar date d is the    *)
(* day index d and "HH:00" is the hour HH, so that in UTC                  *)
(* new Date(date + 'T' + startTime).getTime() is date * 24 + startTime.    *)
(* The store is constructed on day 1 at 17:00 (instant 41): "tomorrow" is  *)
(* day 2 and "yesterday" is day 0.  The program runs in the time zone      *)
(* `zone`: UTC except in the specification of session creation.            *)
(*                                                                         *)
(* Every operation of mockDb is `await delay(ms)` followed by a body that  *)
(* never awaits: the body is one atomic step, and the calls that are       *)
(* pending in their delay may complete in any order.  Each action below is *)
(* the body of one call, its arguments chosen by Next; the specification   *)
(* of the operations in flight keeps the pending calls in `tasks`.         *)
(***************************************************************************)
EXTENDS Integers, Sequences, FiniteSets, TLC

VARIABLES
    CLUBS,      \* sequence of club ids
    MEMBERS,    \* sequence of ClubMember rows
    SESSIONS,   \* sequence of Session records
    MATCHES,    \* sequence of Match records (the log)
    now,        \* Date.now()
    last,       \* the call that completed last: its name, arguments, outcome
    zone,       \* the time zone the program runs in
    recorder,   \* the state of the MatchRecorder component
    tasks,      \* the asynchronous calls in flight
    USERS       \* sequence of User records

vars == <<CLUBS, MEMBERS, SESSIONS, MATCHES, now, last, zone, recorder, tasks, USERS>>

\* what the operations on clubs, sessions and matches leave alone
env == <<zone, recorder, tasks, USERS>>

---------------------------------------------------------------------------
(* Bounds of the model *)

MaxSessions == 3     \* sessions in the store (2 seeded)
MaxMatches == 3      \* matches in the log (2 seeded)
MaxNow == 42         \* the clock stops here
MaxClubs == 3        \* clubs in the store (2 seeded)
MaxScore == 1        \* the score buttons stop here
MaxPending == 2      \* calls waiting in their delay at one time
MaxWeeks == 2        \* recurrenceWeeks of a createSession call
MaxCreated == 2      \* sessions created in the specification of session creation
MaxLog == 4          \* matches in the log of the specification of the match log
MaxCalls == 4        \* calls made in the specification of the race for a slot
MaxProfile == 7      \* matches in the log of the specification of the profile

---------------------------------------------------------------------------
(* Array helpers *)

Includes(arr, x) == \E k \in 1..Len(arr) : arr[k] = x

Without(arr, x) == SelectSeq(arr, LAMBDA e : e # x)

Elems(arr) == {arr[k] : k \in 1..Len(arr)}

\* Array.prototype.findIndex on ids, 1-based; 0 when there is none
FindSession(sessionId) ==
    IF \E k \in 1..Len(SESSIONS) : SESSIONS[k].id = sessionId
    THEN CHOOSE k \in 1..Len(SESSIONS) :
            /\ SESSIONS[k].id = sessionId
            /\ \A j \in 1..(k - 1) : SESSIONS[j].id # sessionId
    ELSE 0

---------------------------------------------------------------------------
(* Seed data *)

User(id, email) == [id |-> id, email |-> email]

SeedUsers ==
    << User("u1", "alex@demo.com"), User("u2", "sarah@demo.com"),
       User("u3", "mike@demo.com"), User("u4", "jenny@demo.com"),
       User("u5", "david@demo.com") >>

SeedClubs == <<"c1", "c2">>

Member(c, u, r, p, w) ==
    [clubId |-> c, userId |-> u, role |-> r, matchesPlayed |-> p, matchesWon |-> w]

SeedMembers ==
    << Member("c1", "u1", "admin", 45, 30),
       Member("c1", "u2", "member", 20, 8),
       Member("c1", "u3", "member", 40, 35),
       Member("c1", "u4", "member", 10, 2),
       Member("c1", "u5", "member", 15, 7),
       Member("c2", "u1", "member", 5, 5) >>

SeedSessions ==
    << [id |-> "s1", clubId |-> "c1", date |-> 2, startTime |-> 19, endTime |-> 21,
        courtNumber |-> "1 & 2", maxPlayers |-> 8,
        registeredPlayerIds |-> <<"u1", "u2", "u3", "u4", "u5">>, status |-> "OPEN"],
       [id |-> "s2", clubId |-> "c1", date |-> 0, startTime |-> 18, endTime |-> 20,
        courtNumber |-> "4", maxPlayers |-> 6,
        registeredPlayerIds |-> <<"u1", "u3", "u5", "u2">>, status |-> "COMPLETED"] >>

\* m2's timestamp is 86000000 ms before construction: within the hour after m1's
SeedMatches ==
    << [id |-> "m1", sessionId |-> "s2", teamA |-> <<"u1", "u3">>, teamB |-> <<"u5", "u2">>,
        scoreA |-> 21, scoreB |-> 15, winner |-> "A", timestamp |-> 17],
       [id |-> "m2", sessionId |-> "s2", teamA |-> <<"u1", "u2">>, teamB |-> <<"u3", "u5">>,
        scoreA |-> 18, scoreB |-> 21, winner |-> "B", timestamp |-> 18] >>

\* What `last` records of a call: whether the user was registered for the session it
\* names, and that session's status, before the call
NoSession == [registered |-> FALSE, status |-> ""]

Before(i, userId) ==
    IF i = 0 THEN NoSession
    ELSE [registered |-> \E k \in 1..Len(SESSIONS[i].registeredPlayerIds) :
                            SESSIONS[i].registeredPlayerIds[k] = userId,
          status |-> SESSIONS[i].status]

Call(op, sessionId, userId, result, before) ==
    [op |-> op, sessionId |-> sessionId, userId |-> userId, result |-> result,
     before |-> before]

\* A time zone: its standard offset from UTC in hours and, if it has daylight
\* saving time, the local day on which the clocks go forward (at 02:00)
Utc == [std |-> 0, hasDst |-> FALSE, dstDay |-> 0]

\* MatchRecorder: useState([]), useState([]), useState(0), useState(0), useState(false)
NewRecorder ==
    [teamA |-> <<>>, teamB |-> <<>>, scoreA |-> 0, scoreB |-> 0, isSubmitting |-> FALSE]

\* no call is in its delay and no body is running
NoTasks == [pending |-> {}, running |-> <<>>, done |-> <<>>]

InitStore ==
    /\ USERS = SeedUsers
    /\ CLUBS = SeedClubs
    /\ MEMBERS = SeedMembers
    /\ SESSIONS = SeedSessions
    /\ MATCHES = SeedMatches
    /\ now = 41
    /\ last = Call("init", "", "", "ok", NoSession)
    /\ recorder = NewRecorder
    /\ tasks = NoTasks

Init == InitStore /\ zone = Utc

---------------------------------------------------------------------------
(* joinSession *)

AlreadyRegistered_Never(session, userId) == FALSE

AlreadyRegistered_FirstOnly(session, userId) ==
    Len(session.registeredPlayerIds) > 0 /\ session.registeredPlayerIds[1] = userId

AlreadyRegistered(session, userId) == Includes(session.registeredPlayerIds, userId)

IsFull_Never(session) == FALSE

IsFull_OffByOne(session) == Len(session.registeredPlayerIds) > session.maxPlayers

IsFull(session) == Len(session.registeredPlayerIds) >= session.maxPlayers

PushPlayer_Front(session, userId) ==
    LET roster == <<userId>> \o session.registeredPlayerIds IN
    [session EXCEPT !.registeredPlayerIds = roster,
                    !.status = IF Len(roster) >= session.maxPlayers THEN "FULL" ELSE @]

\* push, then FULL when the roster has reached maxPlayers
PushPlayer(session, userId) ==
    LET roster == Append(session.registeredPlayerIds, userId) IN
    [session EXCEPT !.registeredPlayerIds = roster,
                    !.status = IF Len(roster) >= session.maxPlayers THEN "FULL" ELSE @]

JoinSession(sessionId, userId) ==
    LET i == FindSession(sessionId) IN
    /\ UNCHANGED <<CLUBS, MEMBERS, MATCHES, now>>
    /\ IF i = 0
       THEN /\ SESSIONS' = SESSIONS
            /\ last' = Call("joinSession", sessionId, userId, "Session not found", Before(i, userId))
       ELSE IF AlreadyRegistered(SESSIONS[i], userId)
       THEN /\ SESSIONS' = SESSIONS
            /\ last' = Call("joinSession", sessionId, userId, "ok", Before(i, userId))
       ELSE IF IsFull(SESSIONS[i])
       THEN /\ SESSIONS' = SESSIONS
            /\ last' = Call("joinSession", sessionId, userId, "Session full", Before(i, userId))
       ELSE /\ SESSIONS' = [SESSIONS EXCEPT ![i] = PushPlayer(@, userId)]
            /\ last' = Call("joinSession", sessionId, userId, "ok", Before(i, userId))

---------------------------------------------------------------------------
(* leaveSession *)

\* Dates are counted in days and instants in hours since 00:00 UTC of day 0.

\* a field the caller left out (Partial<Session>): undefined
Undefined == -1

\* daylight saving time is in force at this local wall-clock time
IsDst(z, day, hour) ==
    z.hasDst /\ (day > z.dstDay \/ (day = z.dstDay /\ hour >= 2))

\* local time minus UTC, for a local wall-clock time and for an instant
OffsetAtLocal(z, day, hour) == z.std + (IF IsDst(z, day, hour) THEN 1 ELSE 0)

OffsetAtUtc(z, t) ==
    z.std + (IF z.hasDst /\ t + z.std >= z.dstDay * 24 + 2 THEN 1 ELSE 0)

\* new Date('YYYY-MM-DD'): a date-only string is midnight UTC
ParseDate(date) == date * 24

\* new Date('YYYY-MM-DDTHH:mm'): a date-time string without offset is local time
ParseLocal(z, date, hour) == date * 24 + hour - OffsetAtLocal(z, date, hour)

\* Date.prototype.getDate: the day of the instant in local time
GetDate(z, t) == (t + OffsetAtUtc(z, t)) \div 24

GetHours(z, t) == (t + OffsetAtUtc(z, t)) % 24

\* Date.prototype.setDate: the given local day, at the local time of day of t
SetDate(z, t, day) == ParseLocal(z, day, GetHours(z, t))

\* toISOString().split('T')[0]: the day of the instant in UTC
ToISODate(t) == t \div 24

StartInstant(session) == ParseLocal(zone, session.date, session.startTime)

IsLocked_Reversed(session, t) == StartInstant(session) > t

IsLocked_AtOrBefore(session, t) == StartInstant(session) <= t

\* an Invalid Date has time NaN, and NaN < t is false
IsLocked(session, t) ==
    /\ session.date # Undefined
    /\ session.startTime # Undefined
    /\ StartInstant(session) < t

RemovePlayer_KeepStatus(session, userId) ==
    [session EXCEPT !.registeredPlayerIds = Without(@, userId)]

\* filter, then a FULL session becomes OPEN
RemovePlayer(session, userId) ==
    [session EXCEPT !.registeredPlayerIds = Without(@, userId),
                    !.status = IF @ = "FULL" THEN "OPEN" ELSE @]

LeaveSession(sessionId, userId) ==
    LET i == FindSession(sessionId) IN
    /\ UNCHANGED <<CLUBS, MEMBERS, MATCHES, now>>
    /\ IF i = 0
       THEN /\ SESSIONS' = SESSIONS
            /\ last' = Call("leaveSession", sessionId, userId, "Session not found", Before(i, userId))
       ELSE IF IsLocked(SESSIONS[i], now)
       THEN /\ SESSIONS' = SESSIONS
            /\ last' = Call("leaveSession", sessionId, userId, "Cannot leave past session",
                            Before(i, userId))
       ELSE /\ SESSIONS' = [SESSIONS EXCEPT ![i] = RemovePlayer(@, userId)]
            /\ last' = Call("leaveSession", sessionId, userId, "ok", Before(i, userId))

---------------------------------------------------------------------------
(* createSession *)

NewSession_NoDefaults(n, clubId, data, i) ==
    [id |-> "s" \o ToString(n), clubId |-> clubId,
     date |-> LET baseDate == ParseDate(data.date) IN
              ToISODate(SetDate(zone, baseDate, GetDate(zone, baseDate) + i * 7)),
     startTime |-> data.startTime, endTime |-> data.endTime,
     courtNumber |-> data.courtNumber, maxPlayers |-> data.maxPlayers,
     registeredPlayerIds |-> <<>>, status |-> "OPEN"]

\* data.courtNumber || 'TBD' and data.maxPlayers || 8: "" and 0 are falsy
NewSession(n, clubId, data, i) ==
    [id |-> "s" \o ToString(n), clubId |-> clubId,
     date |-> LET baseDate == ParseDate(data.date) IN
              ToISODate(SetDate(zone, baseDate, GetDate(zone, baseDate) + i * 7)),
     startTime |-> data.startTime, endTime |-> data.endTime,
     courtNumber |-> IF data.courtNumber = "" THEN "TBD" ELSE data.courtNumber,
     maxPlayers |-> IF data.maxPlayers = 0 THEN 8 ELSE data.maxPlayers,
     registeredPlayerIds |-> <<>>, status |-> "OPEN"]

\* ids are 's' + 9 random characters: fresh; here the next unused number.
\* Without data.date the base date is an Invalid Date and toISOString throws a
\* RangeError in the first turn of the loop; the other fields are stored as given
CreateSession(clubId, data, recurrenceWeeks) ==
    LET created == [i \in 1..recurrenceWeeks |->
                      NewSession(Len(SESSIONS) + i, clubId, data, i - 1)] IN
    /\ IF recurrenceWeeks >= 1 /\ data.date = Undefined
       THEN /\ SESSIONS' = SESSIONS
            /\ last' = Call("createSession", "", "", "Invalid time value", NoSession)
                          @@ [returned |-> <<>>]
       ELSE /\ SESSIONS' = SESSIONS \o created
            /\ last' = Call("createSession", "", "", "ok", NoSession)
                          @@ [returned |-> created]
    /\ UNCHANGED <<CLUBS, MEMBERS, MATCHES, now>>

---------------------------------------------------------------------------
(* recordMatch *)

NewMatch(n, matchData, t) ==
    [id |-> "m" \o ToString(n), sessionId |-> matchData.sessionId,
     teamA |-> matchData.teamA, teamB |-> matchData.teamB,
     scoreA |-> matchData.scoreA, scoreB |-> matchData.scoreB,
     winner |-> matchData.winner, timestamp |-> t]

AllPlayers(matchData) == matchData.teamA \o matchData.teamB

WinningTeam(matchData) ==
    IF matchData.winner = "A" THEN matchData.teamA ELSE matchData.teamB

UpdateStats_AnyClub(m, clubId, matchData) ==
    IF Includes(AllPlayers(matchData), m.userId)
    THEN [m EXCEPT !.matchesPlayed = @ + 1,
                   !.matchesWon = IF Includes(WinningTeam(matchData), m.userId)
                                  THEN @ + 1 ELSE @]
    ELSE m

\* the loser pays a win
UpdateStats_Penalty(m, clubId, matchData) ==
    IF m.clubId = clubId /\ Includes(AllPlayers(matchData), m.userId)
    THEN [m EXCEPT !.matchesPlayed = @ + 1,
                   !.matchesWon = IF Includes(WinningTeam(matchData), m.userId)
                                  THEN @ + 1 ELSE @ - 1]
    ELSE m

UpdateStats_Swapped(m, clubId, matchData) ==
    IF m.clubId = clubId /\ Includes(AllPlayers(matchData), m.userId)
    THEN [m EXCEPT !.matchesWon = @ + 1,
                   !.matchesPlayed = IF Includes(WinningTeam(matchData), m.userId)
                                     THEN @ + 1 ELSE @]
    ELSE m

\* the body of MEMBERS.forEach, for one row m
UpdateStats(m, clubId, matchData) ==
    IF m.clubId = clubId /\ Includes(AllPlayers(matchData), m.userId)
    THEN [m EXCEPT !.matchesPlayed = @ + 1,
                   !.matchesWon = IF Includes(WinningTeam(matchData), m.userId)
                                  THEN @ + 1 ELSE @]
    ELSE m

\* ids are 'm' + 9 random characters: fresh; here the next unused number
RecordMatch(matchData) ==
    LET i == FindSession(matchData.sessionId) IN
    /\ MATCHES' = Append(MATCHES, NewMatch(Len(MATCHES) + 1, matchData, now))
    /\ MEMBERS' = IF i = 0 THEN MEMBERS
                  ELSE [k \in 1..Len(MEMBERS) |->
                          UpdateStats(MEMBERS[k], SESSIONS[i].clubId, matchData)]
    /\ last' = Call("recordMatch", matchData.sessionId, "", "ok", NoSession)
    /\ UNCHANGED <<CLUBS, SESSIONS, now>>

---------------------------------------------------------------------------
(* kickMember *)

\* MEMBERS.findIndex, 1-based; 0 when there is none
FindMember(clubId, userId) ==
    IF \E k \in 1..Len(MEMBERS) : MEMBERS[k].clubId = clubId /\ MEMBERS[k].userId = userId
    THEN CHOOSE k \in 1..Len(MEMBERS) :
            /\ MEMBERS[k].clubId = clubId /\ MEMBERS[k].userId = userId
            /\ \A j \in 1..(k - 1) :
                  ~(MEMBERS[j].clubId = clubId /\ MEMBERS[j].userId = userId)
    ELSE 0

\* kickMember that also deletes the matches naming the member
KickMember_Cascade(clubId, userId) ==
    LET i == FindMember(clubId, userId) IN
    /\ MEMBERS' = IF i = 0 THEN MEMBERS
                  ELSE SubSeq(MEMBERS, 1, i - 1) \o SubSeq(MEMBERS, i + 1, Len(MEMBERS))
    /\ MATCHES' = SelectSeq(MATCHES, LAMBDA m : ~Includes(m.teamA \o m.teamB, userId))
    /\ last' = Call("kickMember", clubId, userId, "ok", NoSession)
    /\ UNCHANGED <<CLUBS, SESSIONS, now>>

\* MEMBERS.splice(index, 1)
KickMember(clubId, userId) ==
    LET i == FindMember(clubId, userId) IN
    /\ MEMBERS' = IF i = 0 THEN MEMBERS
                  ELSE SubSeq(MEMBERS, 1, i - 1) \o SubSeq(MEMBERS, i + 1, Len(MEMBERS))
    /\ last' = Call("kickMember", clubId, userId, "ok", NoSession)
    /\ UNCHANGED <<CLUBS, SESSIONS, MATCHES, now>>

---------------------------------------------------------------------------
(* inviteMember, createClub *)

\* String.prototype.toLowerCase, on the addresses the specifications type in
ToLowerCase(str) ==
    CASE str = "Sarah@Demo.com" -> "sarah@demo.com"
      [] str = "ALEX@DEMO.COM" -> "alex@demo.com"
      [] OTHER -> str

\* USERS.find(u => u.email.toLowerCase() === email.toLowerCase()), 1-based; 0: none
FindUserByEmail(email) ==
    IF \E k \in 1..Len(USERS) : ToLowerCase(USERS[k].email) = ToLowerCase(email)
    THEN CHOOSE k \in 1..Len(USERS) :
            /\ ToLowerCase(USERS[k].email) = ToLowerCase(email)
            /\ \A j \in 1..(k - 1) : ToLowerCase(USERS[j].email) # ToLowerCase(email)
    ELSE 0

\* MEMBERS.some(m => m.clubId === clubId && m.userId === userId)
\* inviteMember without the test of MEMBERS.some
IsMember_Never(clubId, userId) == FALSE

IsMember(clubId, userId) ==
    \E k \in 1..Len(MEMBERS) : MEMBERS[k].clubId = clubId /\ MEMBERS[k].userId = userId

\* an unknown address is answered with "Invitation sent" and nothing is stored
InviteMember(clubId, email) ==
    LET u == FindUserByEmail(email) IN
    /\ IF u = 0
       THEN /\ last' = Call("inviteMember", clubId, email, "Invitation sent", NoSession)
            /\ UNCHANGED MEMBERS
       ELSE IF IsMember(clubId, USERS[u].id)
       THEN /\ last' = Call("inviteMember", clubId, email,
                            "User is already a member of this club", NoSession)
            /\ UNCHANGED MEMBERS
       ELSE /\ MEMBERS' = Append(MEMBERS, Member(clubId, USERS[u].id, "member", 0, 0))
            /\ last' = Call("inviteMember", clubId, email, "added", NoSession)
    /\ UNCHANGED <<CLUBS, SESSIONS, MATCHES, now>>

\* ids are 'c' + 9 random characters: fresh; here the next unused number
CreateClub(userId) ==
    LET id == "c" \o ToString(Len(CLUBS) + 1) IN
    /\ CLUBS' = Append(CLUBS, id)
    /\ MEMBERS' = Append(MEMBERS, Member(id, userId, "admin", 0, 0))
    /\ last' = Call("createClub", id, userId, "ok", NoSession)
    /\ UNCHANGED <<SESSIONS, MATCHES, now>>

---------------------------------------------------------------------------
(* The read projections: getSessionMatches, getUserMatches, getClubMembers *)

\* Array.prototype.sort with comparator Cmp: the sort is stable, so a[j] comes
\* before a[i] when Cmp puts it first, or ranks them equal and j < i
Sort(arr, Cmp(_, _)) ==
    LET Precedes(j, i) == Cmp(arr[j], arr[i]) < 0 \/ (Cmp(arr[j], arr[i]) = 0 /\ j < i)
        Rank(i) == 1 + Cardinality({j \in 1..Len(arr) : Precedes(j, i)})
    IN  [k \in 1..Len(arr) |-> arr[CHOOSE i \in 1..Len(arr) : Rank(i) = k]]

\* (a, b) => new Date(b.timestamp).getTime() - new Date(a.timestamp).getTime()
ByTimestampDesc(a, b) == b.timestamp - a.timestamp

SessionMatches(sessionId) ==
    Sort(SelectSeq(MATCHES, LAMBDA m : m.sessionId = sessionId), ByTimestampDesc)

UserMatches(userId) ==
    SelectSeq(MATCHES, LAMBDA m : Includes(m.teamA, userId) \/ Includes(m.teamB, userId))

\* b.stats.won / (b.stats.played || 1) - a.stats.won / (a.stats.played || 1), as
\* the sign of the difference of the two fractions (their denominators are positive)
OrOne(played) == IF played = 0 THEN 1 ELSE played

ByWinRateAsc(a, b) ==
    a.stats.won * OrOne(b.stats.played) - b.stats.won * OrOne(a.stats.played)

ByWinRateDesc(a, b) ==
    b.stats.won * OrOne(a.stats.played) - a.stats.won * OrOne(b.stats.played)

\* { ...user, role, stats }: spreading the undefined of a user who is not in USERS
\* adds no field
LeaderboardEntry(member) ==
    LET u == IF \E k \in 1..Len(USERS) : USERS[k].id = member.userId
             THEN CHOOSE k \in 1..Len(USERS) :
                     /\ USERS[k].id = member.userId
                     /\ \A j \in 1..(k - 1) : USERS[j].id # member.userId
             ELSE 0
        own == [role |-> member.role,
                stats |-> [played |-> member.matchesPlayed, won |-> member.matchesWon]]
    IN  IF u = 0 THEN own ELSE own @@ USERS[u]

ClubMembers(clubId) ==
    LET clubMembers == SelectSeq(MEMBERS, LAMBDA m : m.clubId = clubId) IN
    Sort([k \in 1..Len(clubMembers) |-> LeaderboardEntry(clubMembers[k])], ByWinRateDesc)

GetClubMembers(clubId) ==
    /\ last' = Call("getClubMembers", clubId, "", "ok", NoSession)
                  @@ [returned |-> ClubMembers(clubId)]
    /\ UNCHANGED <<CLUBS, MEMBERS, SESSIONS, MATCHES, now>>

GetSessionMatches(sessionId) ==
    /\ last' = Call("getSessionMatches", sessionId, "", "ok", NoSession)
                  @@ [returned |-> SessionMatches(sessionId)]
    /\ UNCHANGED <<CLUBS, MEMBERS, SESSIONS, MATCHES, now>>

GetUserMatches(userId) ==
    /\ last' = Call("getUserMatches", "", userId, "ok", NoSession)
                  @@ [returned |-> UserMatches(userId)]
    /\ UNCHANGED <<CLUBS, MEMBERS, SESSIONS, MATCHES, now>>

---------------------------------------------------------------------------
(* ProfileView: the statistics of the signed-in user *)

\* (isTeamA && m.winner === 'A') || (!isTeamA && m.winner === 'B')
IsWinner(m, userId) ==
    LET isTeamA == Includes(m.teamA, userId) IN
    (isTeamA /\ m.winner = "A") \/ (~isTeamA /\ m.winner = "B")

Reverse(arr) == [k \in 1..Len(arr) |-> arr[Len(arr) + 1 - k]]

\* stats without the final form.reverse()
ProfileStats_NewestFirst(userId, matches) ==
    LET sorted == Sort(matches, ByTimestampDesc)
        outcome == [k \in 1..Len(sorted) |-> IF IsWinner(sorted[k], userId) THEN "W" ELSE "L"]
    IN  [won |-> Cardinality({k \in 1..Len(sorted) : IsWinner(sorted[k], userId)}),
         played |-> Len(matches),
         form |-> SubSeq(outcome, 1, IF Len(outcome) < 5 THEN Len(outcome) ELSE 5)]

\* the useMemo of ProfileView: the matches sorted newest first, every win counted,
\* the first five outcomes pushed to form, form reversed
ProfileStats(userId, matches) ==
    LET sorted == Sort(matches, ByTimestampDesc)
        outcome == [k \in 1..Len(sorted) |-> IF IsWinner(sorted[k], userId) THEN "W" ELSE "L"]
    IN  [won |-> Cardinality({k \in 1..Len(sorted) : IsWinner(sorted[k], userId)}),
         played |-> Len(matches),
         form |-> Reverse(SubSeq(outcome, 1, IF Len(outcome) < 5 THEN Len(outcome) ELSE 5))]

\* the profile is opened: getUserMatches(user.id).then(setMatches), then stats
ViewProfile(userId) ==
    /\ last' = Call("stats", "", userId, "ok", NoSession)
                  @@ [returned |-> ProfileStats(userId, UserMatches(userId))]
    /\ UNCHANGED <<CLUBS, MEMBERS, SESSIONS, MATCHES, now>>

---------------------------------------------------------------------------
(* updateUser *)

\* USERS.findIndex(u => u.id === userId), 1-based; 0 when there is none
FindUser(userId) ==
    IF \E k \in 1..Len(USERS) : USERS[k].id = userId
    THEN CHOOSE k \in 1..Len(USERS) :
            /\ USERS[k].id = userId
            /\ \A j \in 1..(k - 1) : USERS[j].id # userId
    ELSE 0

\* { ...USERS[index], ...data }: the fields of data replace the user's
UpdateUser(userId, data) ==
    LET i == FindUser(userId) IN
    /\ IF i = 0
       THEN /\ USERS' = USERS
            /\ last' = Call("updateUser", "", userId, "User not found", NoSession)
       ELSE /\ USERS' = [USERS EXCEPT ![i] = data @@ @]
            /\ last' = Call("updateUser", "", userId, "ok", NoSession)
    /\ UNCHANGED <<CLUBS, MEMBERS, SESSIONS, MATCHES, now, zone, recorder, tasks>>

---------------------------------------------------------------------------
(* The clock *)

Tick ==
    /\ now < MaxNow
    /\ now' = now + 1
    /\ last' = Call("tick", "", "", "ok", NoSession)
    /\ UNCHANGED <<CLUBS, MEMBERS, SESSIONS, MATCHES>>

---------------------------------------------------------------------------
(* Specification of the session lifecycle *)

SessionIds == {SESSIONS[k].id : k \in 1..Len(SESSIONS)} \cup {"s0"}

RosterUsers == {"u1", "g1"}

SessionData ==
    [date : {1}, startTime : {18}, endTime : {21}, courtNumber : {""},
     maxPlayers : {1, 2}]

Join == \E s \in SessionIds, u \in RosterUsers : JoinSession(s, u) /\ UNCHANGED env

Leave == \E s \in SessionIds, u \in RosterUsers : LeaveSession(s, u) /\ UNCHANGED env

Create ==
    \E c \in {"c1"}, d \in SessionData, w \in 1..2 :
       /\ Len(SESSIONS) + w <= MaxSessions
       /\ CreateSession(c, d, w)
       /\ UNCHANGED env

Clock == Tick /\ UNCHANGED env

NextSessions == Join \/ Leave \/ Create \/ Clock

SpecSessions == Init /\ [][NextSessions]_vars

---------------------------------------------------------------------------
(* Specification of the match recorder and the membership ledger *)

TeamInputs == {<<"u1">>, <<"u2">>, <<"u1", "g1">>}

MatchInputs ==
    [sessionId : SessionIds, teamA : TeamInputs, teamB : TeamInputs,
     scoreA : {21}, scoreB : {15, 21}, winner : {"A", "B"}]

Record ==
    \E matchData \in MatchInputs :
       /\ Len(MATCHES) < MaxMatches
       /\ RecordMatch(matchData)
       /\ UNCHANGED env

Kick == \E c \in {"c1"}, u \in {"u1", "g1"} : KickMember(c, u) /\ UNCHANGED env

CreateAway ==
    \E d \in [date : {2}, startTime : {19}, endTime : {21}, courtNumber : {"3"},
              maxPlayers : {0}] :
       /\ Len(SESSIONS) < MaxSessions
       /\ CreateSession("c2", d, 1)
       /\ UNCHANGED env

NextLedger == Record \/ Kick \/ CreateAway

SpecLedger == Init /\ [][NextLedger]_vars

---------------------------------------------------------------------------
(* Specification of the club roster: matches recorded with any teams and any
   winner value, between invitations, removals and new clubs *)

AnyTeams == {<<>>, <<"u1">>, <<"u2">>}

AnyMatchInputs ==
    [sessionId : {"s1"}, teamA : AnyTeams, teamB : AnyTeams,
     scoreA : {21}, scoreB : {15}, winner : {"A", "B", "X"}]

Emails == {"Sarah@Demo.com", "alex@demo.com", "nobody@demo.com"}

RecordAny ==
    \E matchData \in AnyMatchInputs :
       /\ Len(MATCHES) < MaxMatches
       /\ RecordMatch(matchData)
       /\ UNCHANGED env

Invite == \E c \in {"c1"}, e \in Emails : InviteMember(c, e) /\ UNCHANGED env

KickAny == \E c \in {"c1"}, u \in {"u2"} : KickMember(c, u) /\ UNCHANGED env

NewClub ==
    \E u \in {"u2"} :
       /\ Len(CLUBS) < MaxClubs
       /\ CreateClub(u)
       /\ UNCHANGED env

NextClub == RecordAny \/ Invite \/ KickAny \/ NewClub

SpecClub == Init /\ [][NextClub]_vars

---------------------------------------------------------------------------
(* MatchRecorder: the component that records a match of a session *)

\* togglePlayer with the check of the other team left out
TogglePlayer_AnyTeam(id, team) ==
    /\ recorder' =
          IF team = "A"
          THEN IF Includes(recorder.teamA, id)
               THEN [recorder EXCEPT !.teamA = Without(@, id)]
               ELSE IF Len(recorder.teamA) < 2
               THEN [recorder EXCEPT !.teamA = Append(@, id)]
               ELSE recorder
          ELSE IF Includes(recorder.teamB, id)
               THEN [recorder EXCEPT !.teamB = Without(@, id)]
               ELSE IF Len(recorder.teamB) < 2
               THEN [recorder EXCEPT !.teamB = Append(@, id)]
               ELSE recorder
    /\ UNCHANGED <<CLUBS, MEMBERS, SESSIONS, MATCHES, now, last, zone, USERS, tasks>>

TogglePlayer(id, team) ==
    /\ recorder' =
          IF team = "A"
          THEN IF Includes(recorder.teamA, id)
               THEN [recorder EXCEPT !.teamA = Without(@, id)]
               ELSE IF Len(recorder.teamA) < 2 /\ ~Includes(recorder.teamB, id)
               THEN [recorder EXCEPT !.teamA = Append(@, id)]
               ELSE recorder
          ELSE IF Includes(recorder.teamB, id)
               THEN [recorder EXCEPT !.teamB = Without(@, id)]
               ELSE IF Len(recorder.teamB) < 2 /\ ~Includes(recorder.teamA, id)
               THEN [recorder EXCEPT !.teamB = Append(@, id)]
               ELSE recorder
    /\ UNCHANGED <<CLUBS, MEMBERS, SESSIONS, MATCHES, now, last, zone, USERS, tasks>>

SwapSides ==
    /\ recorder' = [recorder EXCEPT !.teamA = recorder.teamB, !.teamB = recorder.teamA,
                                    !.scoreA = recorder.scoreB, !.scoreB = recorder.scoreA]
    /\ UNCHANGED <<CLUBS, MEMBERS, SESSIONS, MATCHES, now, last, zone, USERS, tasks>>

\* the + buttons: setScoreA(s => s + 1), setScoreB(s => s + 1)
ScoreUp(team) ==
    /\ (IF team = "A" THEN recorder.scoreA ELSE recorder.scoreB) < MaxScore
    /\ recorder' = IF team = "A" THEN [recorder EXCEPT !.scoreA = @ + 1]
                   ELSE [recorder EXCEPT !.scoreB = @ + 1]
    /\ UNCHANGED <<CLUBS, MEMBERS, SESSIONS, MATCHES, now, last, zone, USERS, tasks>>

\* the - buttons: setScoreA(s => Math.max(0, s - 1)), setScoreB likewise
ScoreDown(team) ==
    /\ recorder' = IF team = "A"
                   THEN [recorder EXCEPT !.scoreA = IF @ - 1 > 0 THEN @ - 1 ELSE 0]
                   ELSE [recorder EXCEPT !.scoreB = IF @ - 1 > 0 THEN @ - 1 ELSE 0]
    /\ UNCHANGED <<CLUBS, MEMBERS, SESSIONS, MATCHES, now, last, zone, USERS, tasks>>

\* an asynchronous call of the store, waiting in its delay
Task(op, args) == [op |-> op, args |-> args]

\* the Record Result button is disabled while a team is empty or a call is awaited;
\* a draw is answered with an alert, anything else is sent to recordMatch
SubmitMatch(sessionId) ==
    LET matchData == [sessionId |-> sessionId,
                      teamA |-> recorder.teamA, teamB |-> recorder.teamB,
                      scoreA |-> recorder.scoreA, scoreB |-> recorder.scoreB,
                      winner |-> IF recorder.scoreA > recorder.scoreB THEN "A" ELSE "B"] IN
    /\ Len(recorder.teamA) # 0
    /\ Len(recorder.teamB) # 0
    /\ ~recorder.isSubmitting
    /\ IF recorder.scoreA = recorder.scoreB
       THEN UNCHANGED <<recorder, tasks>>
       ELSE /\ recorder' = [recorder EXCEPT !.isSubmitting = TRUE]
            /\ tasks' = [tasks EXCEPT !.pending = @ \cup {Task("recordMatch", matchData)}]
    /\ UNCHANGED <<CLUBS, MEMBERS, SESSIONS, MATCHES, now, last, zone, USERS>>

\* the awaited recordMatch runs; then setIsSubmitting(false) and onRecord(), which
\* closes the modal: the component is unmounted and opens again with fresh state
SubmitMatchDone(task) ==
    /\ task \in tasks.pending
    /\ task.op = "recordMatch"
    /\ RecordMatch(task.args)
    /\ tasks' = [tasks EXCEPT !.pending = @ \ {task}]
    /\ recorder' = NewRecorder
    /\ UNCHANGED <<zone, USERS>>

---------------------------------------------------------------------------
(* Specification of the MatchRecorder, recording matches of the seeded session s1 *)

\* players: the users registered for the session (three of s1's five)
RecorderPlayers == {"u1", "u2", "u3"}

Toggle == \E id \in RecorderPlayers, team \in {"A", "B"} : TogglePlayer(id, team)

Swap == SwapSides

Plus == \E team \in {"A", "B"} : ScoreUp(team)

Minus == \E team \in {"A", "B"} : ScoreDown(team)

\* one match is recorded: the component starts afresh after each
Submit == Len(MATCHES) = Len(SeedMatches) /\ SubmitMatch("s1")

SubmitDone == \E task \in tasks.pending : SubmitMatchDone(task)

NextRecorder == Toggle \/ Swap \/ Plus \/ Minus \/ Submit \/ SubmitDone

SpecRecorder == Init /\ [][NextRecorder]_vars

---------------------------------------------------------------------------
(* The asynchronous operations: every operation of the store is
   `await delay(ms)` followed by a body without another await. A call waits in
   tasks.pending; its body starts when the timer fires and no other body is on
   the stack, and runs to its return. The body of recordMatch is taken one
   statement at a time; tasks.running holds its frame. *)

ThreadFree_Preempted == TRUE

\* a callback starts only when the running one has returned
ThreadFree == tasks.running = <<>>

\* the call is made: the operation reaches its `await delay`
Start(task) ==
    /\ Cardinality(tasks.pending) < MaxPending
    /\ tasks' = [tasks EXCEPT !.pending = @ \cup {task}]
    /\ UNCHANGED <<CLUBS, MEMBERS, SESSIONS, MATCHES, now, last, zone, USERS, recorder>>

\* the bodies of getClubMembers, getSessionMatches and getUserMatches read the store
ReadBody(task) ==
    /\ ThreadFree
    /\ task \in tasks.pending
    /\ task.op \in {"getClubMembers", "getSessionMatches", "getUserMatches"}
    /\ tasks' = [tasks EXCEPT !.pending = @ \ {task}]
    /\ last' = Call(task.op, task.args.id, "", "ok", NoSession)
    /\ UNCHANGED <<CLUBS, MEMBERS, SESSIONS, MATCHES, now, zone, USERS, recorder>>

KickBody(task) ==
    /\ ThreadFree
    /\ task \in tasks.pending
    /\ task.op = "kickMember"
    /\ KickMember(task.args.clubId, task.args.userId)
    /\ tasks' = [tasks EXCEPT !.pending = @ \ {task}]
    /\ UNCHANGED <<zone, USERS, recorder>>

InviteBody(task) ==
    /\ ThreadFree
    /\ task \in tasks.pending
    /\ task.op = "inviteMember"
    /\ InviteMember(task.args.clubId, task.args.email)
    /\ tasks' = [tasks EXCEPT !.pending = @ \ {task}]
    /\ UNCHANGED <<zone, USERS, recorder>>

\* recordMatch up to MATCHES.push(newMatch); the frame remembers the rows it found
RecordPush(task) ==
    /\ ThreadFree
    /\ task \in tasks.pending
    /\ task.op = "recordMatch"
    /\ MATCHES' = Append(MATCHES, NewMatch(Len(MATCHES) + 1, task.args, now))
    /\ tasks' = [tasks EXCEPT
                    !.pending = @ \ {task},
                    !.running = <<[args |-> task.args, k |-> 0, members |-> MEMBERS]>>]
    /\ UNCHANGED <<CLUBS, MEMBERS, SESSIONS, now, last, zone, USERS, recorder>>

\* one turn of MEMBERS.forEach
RecordRow ==
    /\ tasks.running # <<>>
    /\ LET f == tasks.running[1]
           i == FindSession(f.args.sessionId) IN
       /\ i # 0
       /\ f.k < Len(MEMBERS)
       /\ MEMBERS' = [MEMBERS EXCEPT
                        ![f.k + 1] = UpdateStats(@, SESSIONS[i].clubId, f.args)]
       /\ tasks' = [tasks EXCEPT !.running = <<[f EXCEPT !.k = @ + 1]>>]
    /\ UNCHANGED <<CLUBS, SESSIONS, MATCHES, now, last, zone, USERS, recorder>>

\* return newMatch
RecordReturn ==
    /\ tasks.running # <<>>
    /\ LET f == tasks.running[1]
           i == FindSession(f.args.sessionId) IN
       /\ IF i = 0 THEN TRUE ELSE f.k >= Len(MEMBERS)
       /\ last' = Call("recordMatch", f.args.sessionId, "", "ok", NoSession)
    /\ tasks' = [tasks EXCEPT !.running = <<>>]
    /\ UNCHANGED <<CLUBS, MEMBERS, SESSIONS, MATCHES, now, zone, USERS, recorder>>

---------------------------------------------------------------------------
(* getBadmintonTips: the tips of the AI coach. A JSON value is a record of its
   type and its items; the external service answers with a rejection or with a
   response whose text is empty or one of Texts. *)

Str(text) == [type |-> "string", text |-> text]

Num(text) == [type |-> "number", text |-> text]

Arr(items) == [type |-> "array", items |-> items]

Null == [type |-> "null", items |-> <<>>]

Obj == [type |-> "object", items |-> <<>>]

\* the list returned when response.text is empty
StaticTips ==
    Arr(<<Str("Keep practicing your footwork!"), Str("Focus on consistency."),
          Str("Analyze your opponents weak points.")>>)

\* the list returned by the catch block
FallbackTips ==
    Arr(<<Str("Focus on recovering to the center after every shot."),
          Str("Keep your racket up and ready at all times."),
          Str("Vary your service to keep opponents guessing.")>>)

Texts ==
    {"[\"Smash more\",\"Move your feet\",\"Serve low\"]", "[\"Smash more\"]",
     "[1,2,3]", "[]", "{\"tips\":[\"Smash more\"]}", "null",
     "Here are your tips: smash more", "[\"Smash more\",\"Mo"}

\* JSON.parse on the texts of the model: a value, or a SyntaxError thrown
JsonParse(text) ==
    CASE text = "[\"Smash more\",\"Move your feet\",\"Serve low\"]" ->
            [thrown |-> FALSE,
             value |-> Arr(<<Str("Smash more"), Str("Move your feet"), Str("Serve low")>>)]
      [] text = "[\"Smash more\"]" -> [thrown |-> FALSE, value |-> Arr(<<Str("Smash more")>>)]
      [] text = "[1,2,3]" -> [thrown |-> FALSE, value |-> Arr(<<Num("1"), Num("2"), Num("3")>>)]
      [] text = "[]" -> [thrown |-> FALSE, value |-> Arr(<<>>)]
      [] text = "{\"tips\":[\"Smash more\"]}" -> [thrown |-> FALSE, value |-> Obj]
      [] text = "null" -> [thrown |-> FALSE, value |-> Null]
      [] OTHER -> [thrown |-> TRUE, value |-> Null]

Responses ==
    {[rejected |-> TRUE, text |-> ""]} \cup [rejected : {FALSE}, text : Texts \cup {""}]

\* the try block: await generateContent, the test of response.text, JSON.parse
TipsTry(response) ==
    IF response.rejected THEN [thrown |-> TRUE, value |-> Null]
    ELSE IF response.text = "" THEN [thrown |-> FALSE, value |-> StaticTips]
    ELSE JsonParse(response.text)

\* getBadmintonTips without its catch block
GetBadmintonTips_NoCatch(response) ==
    LET r == TipsTry(response) IN
    [resolved |-> ~r.thrown, value |-> r.value]

\* try { ... } catch (error) { console.error(...); return [the fallback] }
GetBadmintonTips(response) ==
    LET r == TipsTry(response) IN
    IF r.thrown THEN [resolved |-> TRUE, value |-> FallbackTips]
    ELSE [resolved |-> TRUE, value |-> r.value]

\* the call settles when the external service has answered
TipsBody(task, response) ==
    /\ ThreadFree
    /\ task \in tasks.pending
    /\ task.op = "getBadmintonTips"
    /\ LET r == GetBadmintonTips(response) IN
       last' = Call("getBadmintonTips", "", "", IF r.resolved THEN "ok" ELSE "rejected",
                    NoSession)
                 @@ [returned |-> r.value, response |-> response]
    /\ tasks' = [tasks EXCEPT !.pending = @ \ {task}]
    /\ UNCHANGED <<CLUBS, MEMBERS, SESSIONS, MATCHES, now, zone, USERS, recorder>>

---------------------------------------------------------------------------
(* joinSession in flight. tasks.done is the history of the joinSession calls
   that have settled: the call, its result, the calls that were pending beside
   it, and the free slots and the registration it found. *)

Settled(task, i) ==
    [task |-> task, result |-> last'.result, rivals |-> tasks.pending \ {task},
     registered |-> last'.before.registered,
     free |-> IF i = 0 THEN 0
              ELSE SESSIONS[i].maxPlayers - Len(SESSIONS[i].registeredPlayerIds)]

\* a body of joinSession that pushes without the test of the capacity
JoinBody_Overbook(task) ==
    /\ ThreadFree
    /\ task \in tasks.pending
    /\ task.op = "joinSession"
    /\ LET i == FindSession(task.args.sessionId) IN
       /\ i # 0
       /\ SESSIONS' = [SESSIONS EXCEPT ![i] = PushPlayer(@, task.args.userId)]
       /\ last' = Call("joinSession", task.args.sessionId, task.args.userId, "ok",
                       Before(i, task.args.userId))
       /\ tasks' = [tasks EXCEPT !.pending = @ \ {task},
                                 !.done = Append(@, Settled(task, i))]
    /\ UNCHANGED <<CLUBS, MEMBERS, MATCHES, now, zone, USERS, recorder>>

\* the body of joinSession, from the end of its delay to its return or throw
JoinBody(task) ==
    /\ ThreadFree
    /\ task \in tasks.pending
    /\ task.op = "joinSession"
    /\ JoinSession(task.args.sessionId, task.args.userId)
    /\ tasks' = [tasks EXCEPT
                    !.pending = @ \ {task},
                    !.done = Append(@, Settled(task, FindSession(task.args.sessionId)))]
    /\ UNCHANGED <<zone, USERS, recorder>>

---------------------------------------------------------------------------
(* Specification of the operations in flight *)

AsyncCalls ==
    {Task("recordMatch", md) :
        md \in [sessionId : {"s1"}, teamA : {<<"u1", "u2">>}, teamB : {<<"u3">>, <<"u5">>},
                scoreA : {21}, scoreB : {15}, winner : {"A"}]}
    \cup {Task("getClubMembers", [id |-> "c1"]), Task("getSessionMatches", [id |-> "s1"]),
          Task("getUserMatches", [id |-> "u1"]),
          Task("kickMember", [clubId |-> "c1", userId |-> "u2"]),
          Task("inviteMember", [clubId |-> "c1", email |-> "Sarah@Demo.com"])}

Invoke == \E task \in AsyncCalls : Start(task)

Read == \E task \in tasks.pending : ReadBody(task)

KickLater == \E task \in tasks.pending : KickBody(task)

InviteLater == \E task \in tasks.pending : InviteBody(task)

Push == \E task \in tasks.pending : Len(MATCHES) < MaxMatches /\ RecordPush(task)

NextAsync ==
    Invoke \/ Read \/ KickLater \/ InviteLater \/ Push \/ RecordRow \/ RecordReturn

SpecAsync == Init /\ [][NextAsync]_vars

---------------------------------------------------------------------------
(* Specification of session creation, in the time zones the program may run in *)

\* New York and Berlin put their clocks forward on day 10; Tokyo never does
Zones ==
    {Utc, [std |-> 0 - 5, hasDst |-> TRUE, dstDay |-> 10],
     [std |-> 1, hasDst |-> TRUE, dstDay |-> 10],
     [std |-> 9, hasDst |-> FALSE, dstDay |-> 0]}

\* templates with every required field
CompleteData ==
    [date : {4}, startTime : {18}, endTime : {21}, courtNumber : {"", "3"},
     maxPlayers : {0, 4}]

\* templates with one required field left out
PartialData ==
    {[date |-> Undefined, startTime |-> 18, endTime |-> 21, courtNumber |-> "", maxPlayers |-> 0],
     [date |-> 4, startTime |-> Undefined, endTime |-> 21, courtNumber |-> "", maxPlayers |-> 0],
     [date |-> 4, startTime |-> 18, endTime |-> Undefined, courtNumber |-> "", maxPlayers |-> 0]}

InitZones == InitStore /\ zone \in Zones

CreateComplete ==
    \E c \in {"c1", "c2"}, d \in CompleteData, w \in 1..MaxWeeks :
       /\ Len(SESSIONS) + w <= Len(SeedSessions) + MaxCreated
       /\ CreateSession(c, d, w)
       /\ UNCHANGED env

CreatePartial ==
    \E c \in {"c1"}, d \in PartialData, w \in 1..MaxWeeks :
       /\ Len(SESSIONS) + w <= Len(SeedSessions) + MaxCreated
       /\ CreateSession(c, d, w)
       /\ UNCHANGED env

NextCreate == CreateComplete \/ CreatePartial

SpecCreate == InitZones /\ [][NextCreate]_vars

---------------------------------------------------------------------------
(* Specification of the match log: matches recorded while the clock runs or
   stands still, between removals, leaves, profile updates and reads *)

LogInputs ==
    [sessionId : {"s1", "s2"}, teamA : {<<"u1">>}, teamB : {<<"u2">>},
     scoreA : {21}, scoreB : {15}, winner : {"A"}]

RecordLog ==
    \E matchData \in LogInputs :
       /\ Len(MATCHES) < MaxLog
       /\ RecordMatch(matchData)
       /\ UNCHANGED env

KickLog == \E c \in {"c1"}, u \in {"u2"} : KickMember(c, u) /\ UNCHANGED env

LeaveLog == \E s \in {"s1"}, u \in {"u2"} : LeaveSession(s, u) /\ UNCHANGED env

UpdateLog == \E u \in {"u2"}, d \in {[email |-> "sarah@club.org"]} : UpdateUser(u, d)

ReadLog == \E s \in {"s1"} : GetSessionMatches(s) /\ UNCHANGED env

NextLog == RecordLog \/ KickLog \/ LeaveLog \/ UpdateLog \/ ReadLog \/ Clock

SpecLog == Init /\ [][NextLog]_vars

---------------------------------------------------------------------------
(* Specification of the counters: one match recorded between every other kind
   of operation on the club c1 and its session s1 *)

RecordOne ==
    \E matchData \in [sessionId : {"s1"}, teamA : {<<"u1">>, <<"u3">>}, teamB : {<<"u2">>},
                       scoreA : {21}, scoreB : {15}, winner : {"A", "B"}] :
       /\ Len(MATCHES) < MaxMatches
       /\ RecordMatch(matchData)
       /\ UNCHANGED env

JoinOther == \E s \in {"s1"}, u \in {"g1"} : JoinSession(s, u) /\ UNCHANGED env

LeaveOther == \E s \in {"s1"}, u \in {"u1"} : LeaveSession(s, u) /\ UNCHANGED env

CreateOther ==
    \E d \in [date : {3}, startTime : {19}, endTime : {21}, courtNumber : {""},
              maxPlayers : {0}] :
       /\ Len(SESSIONS) < MaxSessions
       /\ CreateSession("c1", d, 1)
       /\ UNCHANGED env

InviteOther ==
    \E c \in {"c1", "c2"}, e \in {"Sarah@Demo.com"} : InviteMember(c, e) /\ UNCHANGED env

KickOther == \E c \in {"c1"}, u \in {"u2", "u5"} : KickMember(c, u) /\ UNCHANGED env

ReadMembers == \E c \in {"c1"} : GetClubMembers(c) /\ UNCHANGED env

ReadMatches == \E u \in {"u1"} : GetUserMatches(u) /\ UNCHANGED env

NextCounters ==
    RecordOne \/ JoinOther \/ LeaveOther \/ CreateOther \/ InviteOther \/ KickOther
       \/ ReadMembers \/ ReadMatches

SpecCounters == Init /\ [][NextCounters]_vars

---------------------------------------------------------------------------
(* Specification of the leaderboard: the club roster, read at any time *)

Board == \E c \in {"c1", "c2", "c3"} : GetClubMembers(c) /\ UNCHANGED env

NextBoard == RecordAny \/ Invite \/ KickAny \/ NewClub \/ Board

SpecBoard == Init /\ [][NextBoard]_vars

---------------------------------------------------------------------------
(* Specification of the profile: u1 wins, loses or sits out the matches that are
   recorded while the clock runs, and opens the profile *)

ProfileInputs ==
    {[sessionId |-> "s1", teamA |-> <<"u1">>, teamB |-> <<"u2">>,
      scoreA |-> 21, scoreB |-> 15, winner |-> "A"],
     [sessionId |-> "s1", teamA |-> <<"u2">>, teamB |-> <<"u1">>,
      scoreA |-> 21, scoreB |-> 15, winner |-> "A"],
     [sessionId |-> "s2", teamA |-> <<"u2">>, teamB |-> <<"u3">>,
      scoreA |-> 15, scoreB |-> 21, winner |-> "B"]}

RecordProfile ==
    \E matchData \in ProfileInputs :
       /\ Len(MATCHES) < MaxProfile
       /\ RecordMatch(matchData)
       /\ UNCHANGED env

OpenProfile == \E u \in {"u1"} : ViewProfile(u) /\ UNCHANGED env

NextProfile == RecordProfile \/ OpenProfile \/ Clock

SpecProfile == Init /\ [][NextProfile]_vars

---------------------------------------------------------------------------
(* Specification of the AI coach: u1 asks for tips on the statistics of the
   moment, between the matches that are recorded, and the service answers *)

RecordCoached ==
    \E matchData \in ProfileInputs :
       /\ Len(MATCHES) < MaxMatches
       /\ RecordMatch(matchData)
       /\ UNCHANGED env

\* handleAiCoach up to its await
AskCoach ==
    Start(Task("getBadmintonTips", [stats |-> ProfileStats("u1", UserMatches("u1"))]))

CoachAnswers == \E task \in tasks.pending, response \in Responses : TipsBody(task, response)

NextTips == RecordCoached \/ AskCoach \/ CoachAnswers

SpecTips == Init /\ [][NextTips]_vars

---------------------------------------------------------------------------
(* Specification of the memberships: clubs are created and users are invited to
   and removed from the seeded club c1 and the first created club c3. The id of
   a created club is drawn at random by createClub: a caller names it only once
   the club exists. *)

InviteAny ==
    \E c \in {"c1", "c3"}, e \in Emails :
       /\ Includes(CLUBS, c)
       /\ InviteMember(c, e)
       /\ UNCHANGED env

KickEither ==
    \E c \in {"c1", "c3"}, u \in {"u1", "u2"} :
       /\ Includes(CLUBS, c)
       /\ KickMember(c, u)
       /\ UNCHANGED env

NextMembers == InviteAny \/ KickEither \/ NewClub

SpecMembers == Init /\ [][NextMembers]_vars

---------------------------------------------------------------------------
(* Specification of the race for a slot: four users who are not registered call
   joinSession for the seeded session s1, which has three free slots *)

RaceCalls ==
    {Task("joinSession", [sessionId |-> "s1", userId |-> u]) :
        u \in {"g1", "g2", "g3", "g4"}}

Enter ==
    \E task \in RaceCalls :
       /\ Len(tasks.done) + Cardinality(tasks.pending) < MaxCalls
       /\ Start(task)

Settle == \E task \in tasks.pending : JoinBody(task)

NextRace == Enter \/ Settle

SpecRace == Init /\ [][NextRace]_vars

---------------------------------------------------------------------------
(* Properties of the session lifecycle *)

\* The session a completed joinSession / leaveSession call named, as an index
\* into SESSIONS before the call (0: the call is not op, or names no session)
Target(op) == IF last'.op = op THEN FindSession(last'.sessionId) ELSE 0

Roster(k) == SESSIONS[k].registeredPlayerIds

CexStatusDerivation ==
    \A k \in 1..Len(SESSIONS) :
       SESSIONS[k].status # "COMPLETED" =>
          SESSIONS[k].status =
             (IF Len(Roster(k)) = SESSIONS[k].maxPlayers THEN "FULL" ELSE "OPEN")

\* C3. COMPLETED is terminal: a COMPLETED session keeps its roster and its
\* status in every step, and a joinSession / leaveSession on it by a user who
\* is not in its roster fails.
CexCompletedTerminal ==
    [][\A k \in 1..Len(SESSIONS) :
          SESSIONS[k].status = "COMPLETED" =>
             /\ SESSIONS'[k] = SESSIONS[k]
             /\ ((Target("joinSession") = k \/ Target("leaveSession") = k)
                    /\ ~Includes(Roster(k), last'.userId))
                   => last'.result # "ok"]_vars

\* C4. Idempotent join: joinSession by a user already in the roster returns
\* without error and changes no session, also at maxPlayers; a join by a user
\* not in the roster that succeeds grows the roster by that one user, so two
\* successive joins by one user grow it by exactly one.
ThmIdempotentJoin ==
    [][LET k == Target("joinSession") IN
       k # 0 =>
          IF Includes(Roster(k), last'.userId)
          THEN last'.result = "ok" /\ SESSIONS' = SESSIONS
          ELSE last'.result = "ok" =>
                  /\ Len(SESSIONS'[k].registeredPlayerIds) = Len(Roster(k)) + 1
                  /\ Includes(SESSIONS'[k].registeredPlayerIds, last'.userId)]_vars

\* a registered user joined again while the roster was at maxPlayers
WitIdempotentJoin ==
    /\ last.op = "joinSession" /\ last.result = "ok" /\ last.before.registered
    /\ \E k \in 1..Len(SESSIONS) :
          /\ SESSIONS[k].id = last.sessionId
          /\ Len(Roster(k)) = SESSIONS[k].maxPlayers
          /\ SESSIONS[k].status = "FULL"

\* C5. joinSession by a user not in the roster, the roster at maxPlayers, fails
\* with 'Session full' and changes no session.
ThmJoinFull ==
    [][LET k == Target("joinSession") IN
       (/\ k # 0
        /\ ~Includes(Roster(k), last'.userId)
        /\ Len(Roster(k)) = SESSIONS[k].maxPlayers)
       => last'.result = "Session full" /\ SESSIONS' = SESSIONS]_vars

\* a new user was refused by a FULL session
WitJoinFull ==
    /\ last.op = "joinSession" /\ last.result = "Session full"
    /\ ~last.before.registered /\ last.before.status = "FULL"

\* C6. leaveSession on a session whose start instant is strictly before the
\* current instant fails with 'Cannot leave past session' and leaves the
\* session's roster and status unchanged, the user registered or not.
ThmLeaveLocked ==
    [][LET k == Target("leaveSession") IN
       (k # 0 /\ StartInstant(SESSIONS[k]) < now)
       => last'.result = "Cannot leave past session" /\ SESSIONS'[k] = SESSIONS[k]]_vars

\* a registered user was refused
WitLeaveLocked ==
    /\ last.op = "leaveSession" /\ last.result = "Cannot leave past session"
    /\ last.before.registered

\* C7 as claimed. leaveSession on a session whose start instant equals the
\* current instant fails with 'Cannot leave past session'.
CexLeaveAtStart ==
    [][LET k == Target("leaveSession") IN
       (k # 0 /\ StartInstant(SESSIONS[k]) = now)
       => last'.result = "Cannot leave past session"]_vars

\* C7 as amended. leaveSession on a session whose start instant equals the
\* current instant is not locked: it returns without error and the roster is
\* the old one without the user.
ThmLeaveAtStart ==
    [][LET k == Target("leaveSession") IN
       (k # 0 /\ StartInstant(SESSIONS[k]) = now)
       => /\ last'.result = "ok"
          /\ ~Includes(SESSIONS'[k].registeredPlayerIds, last'.userId)
          /\ Elems(SESSIONS'[k].registeredPlayerIds) = Elems(Roster(k)) \ {last'.userId}]_vars

\* a registered user left at the very start instant
WitLeaveAtStart ==
    /\ last.op = "leaveSession" /\ last.result = "ok" /\ last.before.registered
    /\ \E k \in 1..Len(SESSIONS) :
          SESSIONS[k].id = last.sessionId /\ StartInstant(SESSIONS[k]) = now

\* C8. leaveSession by a registered user on a session that has not started
\* removes exactly that user, keeps the others in their order, and a FULL
\* session becomes OPEN.
ThmLeaveRemoves ==
    [][LET k == Target("leaveSession") IN
       (/\ k # 0
        /\ StartInstant(SESSIONS[k]) > now
        /\ Includes(Roster(k), last'.userId))
       => /\ last'.result = "ok"
          /\ Len(SESSIONS'[k].registeredPlayerIds) = Len(Roster(k)) - 1
          /\ \A a \in 1..Len(Roster(k)), b \in 1..Len(Roster(k)) :
                (a < b /\ Roster(k)[a] # last'.userId /\ Roster(k)[b] # last'.userId)
                => \E c \in 1..Len(SESSIONS'[k].registeredPlayerIds),
                      d \in 1..Len(SESSIONS'[k].registeredPlayerIds) :
                      /\ c < d
                      /\ SESSIONS'[k].registeredPlayerIds[c] = Roster(k)[a]
                      /\ SESSIONS'[k].registeredPlayerIds[d] = Roster(k)[b]
          /\ Elems(SESSIONS'[k].registeredPlayerIds) = Elems(Roster(k)) \ {last'.userId}
          /\ (SESSIONS[k].status = "FULL" => SESSIONS'[k].status = "OPEN")]_vars

\* a registered user left a FULL session, which is OPEN now
WitLeaveRemoves ==
    /\ last.op = "leaveSession" /\ last.result = "ok"
    /\ last.before.registered /\ last.before.status = "FULL"
    /\ \E k \in 1..Len(SESSIONS) :
          /\ SESSIONS[k].id = last.sessionId
          /\ StartInstant(SESSIONS[k]) > now
          /\ SESSIONS[k].status = "OPEN"
          /\ Len(Roster(k)) = SESSIONS[k].maxPlayers - 1

\* C9. leaveSession by a user who is not in the roster of a session that has
\* not started returns without error and changes neither roster nor status.
CexLeaveAbsent ==
    [][LET k == Target("leaveSession") IN
       (/\ k # 0
        /\ StartInstant(SESSIONS[k]) > now
        /\ ~Includes(Roster(k), last'.userId))
       => last'.result = "ok" /\ SESSIONS'[k] = SESSIONS[k]]_vars

---------------------------------------------------------------------------
(* Properties of the match recorder *)

Players(match) ==
    {match.teamA[k] : k \in 1..Len(match.teamA)} \cup
    {match.teamB[k] : k \in 1..Len(match.teamB)}

Winners(match) ==
    IF match.winner = "A" THEN {match.teamA[k] : k \in 1..Len(match.teamA)}
    ELSE {match.teamB[k] : k \in 1..Len(match.teamB)}

\* C10. Ledger effect of recordMatch for an existing session of club c: the
\* Match is appended; every row of club c whose user is in teamA or teamB gets
\* matchesPlayed + 1, and matchesWon + 1 exactly when the user is on the
\* winning team; every other row is unchanged and no row is added.
ThmLedgerEffect ==
    [][LET i == Target("recordMatch") IN
       i # 0 =>
          LET match == MATCHES'[Len(MATCHES')]
              c == SESSIONS[i].clubId
          IN /\ Len(MATCHES') = Len(MATCHES) + 1
             /\ SubSeq(MATCHES', 1, Len(MATCHES)) = MATCHES
             /\ match.sessionId = last'.sessionId
             /\ Len(MEMBERS') = Len(MEMBERS)
             /\ \A k \in 1..Len(MEMBERS) :
                   IF MEMBERS[k].clubId = c /\ MEMBERS[k].userId \in Players(match)
                   THEN MEMBERS'[k] =
                          [MEMBERS[k] EXCEPT
                             !.matchesPlayed = @ + 1,
                             !.matchesWon = IF MEMBERS[k].userId \in Winners(match)
                                            THEN @ + 1 ELSE @]
                   ELSE MEMBERS'[k] = MEMBERS[k]]_vars

\* u1 and the guest g1 beat u2 in a session of c1: u1's row of c1 and u2's row
\* counted the match, u1's row of c2 did not, and g1 has no row
WitLedgerEffect ==
    /\ last.op = "recordMatch" /\ last.sessionId = "s1"
    /\ MATCHES[Len(MATCHES)].teamA = <<"u1", "g1">>
    /\ MATCHES[Len(MATCHES)].teamB = <<"u2">>
    /\ MATCHES[Len(MATCHES)].winner = "A"
    /\ \E k \in 1..Len(MEMBERS) : MEMBERS[k] = Member("c1", "u1", "admin", 46, 31)
    /\ \E k \in 1..Len(MEMBERS) : MEMBERS[k] = Member("c1", "u2", "member", 21, 8)
    /\ \E k \in 1..Len(MEMBERS) : MEMBERS[k] = Member("c2", "u1", "member", 5, 5)
    /\ \A k \in 1..Len(MEMBERS) : MEMBERS[k].userId # "g1"

---------------------------------------------------------------------------
(* Properties of the membership ledger *)

\* C11: in every state reached by recordMatch calls with any teams and any winner
\* value, between inviteMember, kickMember and createClub calls, every membership
\* row has matchesWon <= matchesPlayed
ThmLedgerConsistency ==
    \A k \in 1..Len(MEMBERS) : MEMBERS[k].matchesWon <= MEMBERS[k].matchesPlayed

\* a club was created and a match was recorded that a row invited at 0/0 has won
WitLedgerConsistency ==
    /\ last.op = "recordMatch"
    /\ Len(CLUBS) > Len(SeedClubs)
    /\ \E k \in 1..Len(MEMBERS) :
          /\ k > Len(SeedMembers) - 1
          /\ MEMBERS[k].clubId = "c1"
          /\ MEMBERS[k].matchesPlayed = 1
          /\ MEMBERS[k].matchesWon = 1

\* C12: a recordMatch call with scoreA = scoreB fails with InvalidScore, appends
\* no Match to the log and changes no membership counter
CexTieRejected ==
    [][\A matchData \in MatchInputs :
          (matchData.scoreA = matchData.scoreB /\ RecordMatch(matchData))
             => /\ last'.result = "InvalidScore"
                /\ MATCHES' = MATCHES
                /\ MEMBERS' = MEMBERS]_vars

\* C14: every Match in the log has winner "A" when scoreA > scoreB and "B"
\* otherwise: the stored winner follows from the stored scores
CexWinnerDerivation ==
    \A k \in 1..Len(MATCHES) :
       MATCHES[k].winner = IF MATCHES[k].scoreA > MATCHES[k].scoreB THEN "A" ELSE "B"

\* C16: a recordMatch call whose sessionId matches no session fails with NotFound,
\* appends no Match to the log and changes no membership counter
CexRecordNotFound ==
    [][\A matchData \in MatchInputs :
          (FindSession(matchData.sessionId) = 0 /\ RecordMatch(matchData))
             => /\ last'.result = "Session not found"
                /\ MATCHES' = MATCHES
                /\ MEMBERS' = MEMBERS]_vars

Disjoint(teamA, teamB) == Elems(teamA) \cap Elems(teamB) = {}

Expected(f) ==
    LET i == FindSession(f.args.sessionId) IN
    IF i = 0 THEN f.members
    ELSE [k \in 1..Len(f.members) |-> UpdateStats(f.members[k], SESSIONS[i].clubId, f.args)]

\* a Match is in the log and its counter increments are missing or partly applied
Torn == tasks.running # <<>> /\ MEMBERS # Expected(tasks.running[1])

\* a pending call starts its body, reading the store
BodyStarts == tasks'.pending # tasks.pending /\ tasks'.pending \subseteq tasks.pending

\* C13: under every interleaving of pending recordMatch, getClubMembers,
\* getSessionMatches, getUserMatches, kickMember and inviteMember calls, no
\* operation reads a store in which a Match is appended and its counter increments
\* are missing or partial: recordMatch returns with all of them applied
ThmAtomicRecord ==
    [][/\ BodyStarts => ~Torn
       /\ (tasks.running # <<>> /\ tasks'.running = <<>>)
             => MEMBERS' = Expected(tasks.running[1])]_vars

\* getClubMembers, pending together with a recordMatch, has read the store after
\* that match was recorded, while another recordMatch is pending
WitAtomicRecord ==
    /\ last.op = "getClubMembers"
    /\ Len(MATCHES) > Len(SeedMatches)
    /\ MEMBERS[1].matchesPlayed = SeedMembers[1].matchesPlayed + 1
    /\ \E task \in tasks.pending : task.op = "recordMatch"

---------------------------------------------------------------------------
(* Properties of session creation *)

\* the sessions a createSession step has appended
Appended == SubSeq(SESSIONS', Len(SESSIONS) + 1, Len(SESSIONS'))

\* C17: createSession with recurrenceWeeks >= 1 and every required field appends
\* exactly recurrenceWeeks sessions and returns them; each has the given clubId, the
\* template's startTime, endTime, courtNumber ("TBD" when blank) and maxPlayers
\* (8 when unset), an empty roster and status OPEN; the sessions there before
\* are unchanged
ThmCreateSession ==
    [][\A c \in {"c1", "c2"}, d \in CompleteData, w \in 1..MaxWeeks :
          CreateSession(c, d, w)
             => /\ Len(SESSIONS') = Len(SESSIONS) + w
                /\ SubSeq(SESSIONS', 1, Len(SESSIONS)) = SESSIONS
                /\ last'.returned = Appended
                /\ \A j \in 1..w :
                      /\ Appended[j].clubId = c
                      /\ Appended[j].startTime = d.startTime
                      /\ Appended[j].endTime = d.endTime
                      /\ Appended[j].courtNumber =
                            (IF d.courtNumber = "" THEN "TBD" ELSE d.courtNumber)
                      /\ Appended[j].maxPlayers =
                            (IF d.maxPlayers = 0 THEN 8 ELSE d.maxPlayers)
                      /\ Appended[j].registeredPlayerIds = <<>>
                      /\ Appended[j].status = "OPEN"]_vars

\* a series of two was created, with the defaults taken
WitCreateSession ==
    /\ last.op = "createSession"
    /\ Len(last.returned) = 2
    /\ Len(SESSIONS) = Len(SeedSessions) + 2
    /\ SESSIONS[Len(SESSIONS)].courtNumber = "TBD"
    /\ SESSIONS[Len(SESSIONS)].maxPlayers = 8
    /\ SESSIONS[Len(SESSIONS)].clubId = "c2"

\* C18: the i-th session of a createSession call (i from 0) has the template's
\* date plus 7 * i days
CexWeeklySpacing ==
    [][\A c \in {"c1", "c2"}, d \in CompleteData, w \in 1..MaxWeeks :
          CreateSession(c, d, w)
             => \A j \in 1..Len(Appended) : Appended[j].date = d.date + 7 * (j - 1)]_vars

\* C19: createSession with a required field (date, startTime, endTime) missing
\* fails and leaves the store unchanged
CexCreateValidation ==
    [][\A c \in {"c1"}, d \in PartialData, w \in 1..MaxWeeks :
          CreateSession(c, d, w) => (last'.result # "ok" /\ SESSIONS' = SESSIONS)]_vars

---------------------------------------------------------------------------
(* Properties of the roster order *)

\* C20: a successful joinSession of a user who is not registered puts the user
\* after every user already in the roster, and no joinSession or leaveSession
\* changes the relative order of the users who stay registered: the roster is in
\* the order of the users' most recent successful joins
ThmJoinOrder ==
    [][\A k \in 1..Len(SESSIONS) :
          LET old == Roster(k)
              new == SESSIONS'[k].registeredPlayerIds IN
          /\ new # old =>
                /\ SelectSeq(old, LAMBDA e : e \in Elems(new))
                      = SelectSeq(new, LAMBDA e : e \in Elems(old))
                /\ \A j \in 1..Len(new) :
                      new[j] \notin Elems(old)
                         => \A i \in j..Len(new) : new[i] \notin Elems(old)
          /\ (Target("joinSession") = k /\ last'.result = "ok" /\ ~last'.before.registered)
                => new = Append(old, last'.userId)]_vars

\* u1 has left the seeded session s1 and joined it again: u1 is now its last player
WitJoinOrder ==
    /\ last.op = "joinSession"
    /\ last.result = "ok"
    /\ ~last.before.registered
    /\ SESSIONS[1].registeredPlayerIds = <<"u2", "u3", "u4", "u5", "u1">>

\* C21: in every state reached by joinSession and leaveSession calls, no user id
\* appears more than once in the registeredPlayerIds of any session
ThmRosterUnique ==
    \A k \in 1..Len(SESSIONS) :
       \A i, j \in 1..Len(Roster(k)) : Roster(k)[i] = Roster(k)[j] => i = j

\* g1 has joined the seeded session s1 and then asked to join it again
WitRosterUnique ==
    /\ last.op = "joinSession"
    /\ last.userId = "g1"
    /\ last.before.registered
    /\ SESSIONS[1].registeredPlayerIds = SeedSessions[1].registeredPlayerIds \o <<"g1">>

---------------------------------------------------------------------------
(* Properties of the match log *)

\* C22: no operation of the store removes a recorded Match or changes any of its
\* fields: after every recordMatch, kickMember, leaveSession, updateUser or read
\* the log begins with the log before; a removed member's matches stay as they were
ThmAppendOnly ==
    [][/\ Len(MATCHES') >= Len(MATCHES)
       /\ SubSeq(MATCHES', 1, Len(MATCHES)) = MATCHES]_vars

\* u2 was removed from club c1 after a match naming u2 was recorded, and that
\* match is still in the log
WitAppendOnly ==
    /\ last.op = "kickMember"
    /\ last.userId = "u2"
    /\ FindMember("c1", "u2") = 0
    /\ Len(MATCHES) > Len(SeedMatches)
    /\ Includes(MATCHES[Len(MATCHES)].teamB, "u2")

\* the matches of a session in the order opposite to that of their recording
NewestFirst(sessionId) ==
    LET recorded == SelectSeq(MATCHES, LAMBDA m : m.sessionId = sessionId) IN
    [k \in 1..Len(recorded) |-> recorded[Len(recorded) + 1 - k]]

\* C23: of any two matches in the log the one appended later has a timestamp that
\* is not earlier than the other's, and getSessionMatches returns the matches of a
\* session most recently recorded first
CexTimestampOrder ==
    /\ \A i, j \in 1..Len(MATCHES) :
          i < j => MATCHES[i].timestamp <= MATCHES[j].timestamp
    /\ \A sessionId \in {"s1", "s2"} : SessionMatches(sessionId) = NewestFirst(sessionId)

---------------------------------------------------------------------------
(* Properties of the counters *)

\* the rows of MEMBERS before and after a step that are one membership
SameRow(k, j) ==
    MEMBERS'[j].clubId = MEMBERS[k].clubId /\ MEMBERS'[j].userId = MEMBERS[k].userId

\* C24: for every membership row while it exists, matchesPlayed and matchesWon
\* never decrease, and every operation other than recordMatch (joinSession,
\* leaveSession, createSession, inviteMember and kickMember of another user, the
\* reads) leaves them unchanged
ThmCountersOwned ==
    [][\A k \in 1..Len(MEMBERS), j \in 1..Len(MEMBERS') :
          SameRow(k, j) =>
             /\ MEMBERS'[j].matchesPlayed >= MEMBERS[k].matchesPlayed
             /\ MEMBERS'[j].matchesWon >= MEMBERS[k].matchesWon
             /\ last'.op # "recordMatch" => MEMBERS'[j] = MEMBERS[k]]_vars

\* u5 was removed from club c1 after a match was recorded in which u1 played:
\* u1's row has kept the counters the match gave it
WitCountersOwned ==
    /\ last.op = "kickMember"
    /\ last.userId = "u5"
    /\ FindMember("c1", "u5") = 0
    /\ MEMBERS[1].userId = "u1"
    /\ MEMBERS[1].matchesPlayed = SeedMembers[1].matchesPlayed + 1

---------------------------------------------------------------------------
(* Properties of the read projections *)

\* max(played, 1)
AtLeastOne(played) == IF played > 1 THEN played ELSE 1

\* C25: getClubMembers(clubId) returns exactly one entry per membership row of the
\* club and none of another club, ordered so that of two consecutive entries the
\* earlier has a won / max(played, 1) greater than or equal to the later's; members
\* with no match are ranked at rate 0 and the call does not fail
ThmLeaderboard ==
    [][last'.op = "getClubMembers" =>
          LET clubId == last'.sessionId
              board == last'.returned
              rows == {k \in 1..Len(MEMBERS) : MEMBERS[k].clubId = clubId} IN
          /\ last'.result = "ok"
          /\ Len(board) = Cardinality(rows)
          /\ \A k \in rows :
                \E i \in 1..Len(board) :
                   /\ board[i].id = MEMBERS[k].userId
                   /\ board[i].role = MEMBERS[k].role
                   /\ board[i].stats.played = MEMBERS[k].matchesPlayed
                   /\ board[i].stats.won = MEMBERS[k].matchesWon
                   /\ \A j \in 1..Len(board) : board[j].id = board[i].id => j = i
          /\ \A i \in 1..(Len(board) - 1) :
                board[i].stats.won * AtLeastOne(board[i + 1].stats.played)
                   >= board[i + 1].stats.won * AtLeastOne(board[i].stats.played)]_vars

\* the board of club c1 was read with a member invited at 0/0 on it: u3 leads it
\* and the member without a match closes it
WitLeaderboard ==
    /\ last.op = "getClubMembers"
    /\ last.sessionId = "c1"
    /\ Len(last.returned) = Len(SeedMembers) - 1
    /\ last.returned[1].id = "u3"
    /\ last.returned[Len(last.returned)].stats.played = 0

\* the matches naming the user, as indices into the log, and those of them the
\* user's team has won
Naming(userId) ==
    {k \in 1..Len(MATCHES) :
        Includes(MATCHES[k].teamA, userId) \/ Includes(MATCHES[k].teamB, userId)}

WonBy(userId) ==
    {k \in Naming(userId) :
        \/ Includes(MATCHES[k].teamA, userId) /\ MATCHES[k].winner = "A"
        \/ Includes(MATCHES[k].teamB, userId) /\ MATCHES[k].winner = "B"}

\* form shows, oldest first, the outcomes of the n matches of M with the latest
\* timestamps: the matches of timestamp t fill the places from n minus the number
\* of matches not older than t (plus one) to n minus the number of later matches
FormOfLatest(form, M, W) ==
    LET n == Len(form) IN
    \A t \in {MATCHES[k].timestamp : k \in M} :
       LET at == {k \in M : MATCHES[k].timestamp = t}
           later == Cardinality({k \in M : MATCHES[k].timestamp > t})
           hi == n - later
           lo == IF n - later - Cardinality(at) + 1 > 1
                 THEN n - later - Cardinality(at) + 1 ELSE 1
           wins == Cardinality({i \in lo..hi : form[i] = "W"})
           losses == Cardinality({i \in lo..hi : form[i] = "L"})
       IN  /\ wins <= Cardinality(at \cap W)
           /\ losses <= Cardinality(at \ W)
           /\ hi >= lo => wins + losses = hi - lo + 1

\* C26: for a user with match set M (every match naming the user on either team),
\* played = |M|, won = the number of matches of M won by the user's team, and form
\* has length min(5, |M|) and lists, oldest first, the W/L outcomes of the 5
\* matches with the latest timestamps
ThmProfileStats ==
    [][last'.op = "stats" =>
          LET M == Naming(last'.userId)
              stats == last'.returned IN
          /\ stats.played = Cardinality(M)
          /\ stats.won = Cardinality(WonBy(last'.userId))
          /\ Len(stats.form) = (IF Cardinality(M) < 5 THEN Cardinality(M) ELSE 5)
          /\ FormOfLatest(stats.form, M, WonBy(last'.userId))]_vars

\* u1 has six matches in a log of seven: the oldest, a win, is no longer in the
\* form, and the latest, the other win, closes it
WitProfileStats ==
    /\ last.op = "stats"
    /\ Len(MATCHES) > last.returned.played
    /\ last.returned.played = 6
    /\ last.returned.won = 2
    /\ last.returned.form = <<"L", "L", "L", "L", "W">>

---------------------------------------------------------------------------
(* Properties of the AI coach *)

\* a list of tips: an array of strings
IsTipList(value) ==
    /\ value.type = "array"
    /\ \A k \in DOMAIN value.items : value.items[k].type = "string"

\* C27: for every outcome of the external text-generation call (rejection, empty
\* text, text that is not valid JSON) getBadmintonTips resolves with a list of
\* tips and never rejects or throws to its caller
ThmTipsResolve ==
    [][\A task \in tasks.pending, response \in Responses :
          (/\ TipsBody(task, response)
           /\ \/ response.rejected
              \/ response.text = ""
              \/ JsonParse(response.text).thrown)
          => /\ last'.result = "ok"
             /\ IsTipList(last'.returned)
             /\ Len(last'.returned.items) > 0]_vars

\* a call has settled on a text that is cut off in the middle of a string
WitTipsResolve ==
    /\ last.op = "getBadmintonTips"
    /\ ~last.response.rejected
    /\ last.response.text = "[\"Smash more\",\"Mo"
    /\ last.result = "ok"
    /\ last.returned = FallbackTips

\* C28: getBadmintonTips always returns exactly 3 strings, and whenever the
\* external service fails or returns malformed output (valid JSON that is not an
\* array of exactly 3 strings included) the result is the fixed set of 3 generic
\* fallback tips
CexTipsShape ==
    last.op = "getBadmintonTips" =>
       /\ IsTipList(last.returned)
       /\ Len(last.returned.items) = 3
       /\ LET r == TipsTry(last.response) IN
          (r.thrown \/ ~IsTipList(r.value) \/ Len(r.value.items) # 3)
             => last.returned = FallbackTips

---------------------------------------------------------------------------
(* Properties of the memberships *)

\* no two rows of the ledger have the same club and the same user
UniqueKeys(members) ==
    \A i, j \in 1..Len(members) :
       (members[i].clubId = members[j].clubId /\ members[i].userId = members[j].userId)
          => i = j

\* C29: in every state reachable by any sequence of createClub, inviteMember and
\* kickMember there is at most one membership row per (clubId, userId), and
\* inviteMember for a user who is already a member of the club fails with the
\* duplicate error and adds no row
ThmMemberKey ==
    [][/\ UniqueKeys(MEMBERS)
       /\ UniqueKeys(MEMBERS')
       /\ \A c \in {"c1", "c3"}, e \in Emails :
             (/\ InviteMember(c, e)
              /\ \E k \in 1..Len(USERS), m \in 1..Len(MEMBERS) :
                    /\ ToLowerCase(USERS[k].email) = ToLowerCase(e)
                    /\ MEMBERS[m].clubId = c
                    /\ MEMBERS[m].userId = USERS[k].id)
             => /\ last'.result = "User is already a member of this club"
                /\ MEMBERS' = MEMBERS]_vars

\* the creator of the new club c3 has been invited to it and refused as a duplicate
WitMemberKey ==
    /\ last.op = "inviteMember"
    /\ last.sessionId = "c3"
    /\ last.result = "User is already a member of this club"
    /\ Cardinality({k \in 1..Len(MEMBERS) :
                       MEMBERS[k].clubId = "c3" /\ MEMBERS[k].userId = "u2"}) = 1

---------------------------------------------------------------------------
(* Properties of the race for a slot *)

\* the calls a and b, settled one after the other, were joinSession calls for one
\* session by two distinct users who were not registered, pending at the same
\* time while the session had exactly one free slot
RaceForLastSlot(a, b) ==
    /\ a.task.args.sessionId = b.task.args.sessionId
    /\ a.task.args.userId # b.task.args.userId
    /\ b.task \in a.rivals
    /\ a.free = 1
    /\ ~a.registered
    /\ ~b.registered

\* C30: when a session has exactly one free slot and two joinSession calls by two
\* distinct unregistered users are pending at the same time, then whichever body
\* runs first exactly one call succeeds and the other fails with the capacity
\* error, the roster ends at exactly maxPlayers and the status ends FULL
ThmLastSlot ==
    LET n == Len(tasks.done) IN
    (n >= 2 /\ RaceForLastSlot(tasks.done[n - 1], tasks.done[n])) =>
       LET a == tasks.done[n - 1]
           b == tasks.done[n]
           session == SESSIONS[FindSession(a.task.args.sessionId)] IN
       /\ a.result = "ok"
       /\ b.result = "Session full"
       /\ Len(session.registeredPlayerIds) = session.maxPlayers
       /\ Includes(session.registeredPlayerIds, a.task.args.userId)
       /\ ~Includes(session.registeredPlayerIds, b.task.args.userId)
       /\ session.status = "FULL"

\* g3 and g4 were both waiting for the last slot of s1: g4's body ran first
WitLastSlot ==
    /\ Len(tasks.done) = 4
    /\ RaceForLastSlot(tasks.done[3], tasks.done[4])
    /\ tasks.done[3].task.args.userId = "g4"
    /\ tasks.done[4].task.args.userId = "g3"
    /\ tasks.done[4].result = "Session full"

====
